---- MODULE Spec2Model ----
(***************************************************************************)
(* Pre-submit hook pipeline of the ACMOJ extension                         *)
(* (WorkspaceService.processPreSubmitHooks) and its caller, the            *)
(* acmoj.submitCurrentFile command.                                        *)
(*                                                                         *)
(* Strings are sequences of symbols.  A symbol is a TLA+ string standing   *)
(* for one character (" ", "$", "{", "}", "/", ".", a quote) or for a run  *)
(* of ordinary characters that the code never looks into ("echo", "sol").  *)
(* An optional value (T | undefined) is the empty set or a singleton.      *)
(***************************************************************************)
EXTENDS Integers, Sequences, FiniteSets, TLC

\* ------------------------------------------------------------------ bounds
MaxHooks == 3
MaxPieces == 3
MaxNameLen == 4
MaxRetryCount == 3
MaxTicks == 5
MaxInFlight == 2
MaxCallHooks == 2

\* ------------------------------------------------------- optional values
None == {}
Some(x) == {x}
Get(o) == CHOOSE x \in o : TRUE

\* ------------------------------------------------------- string helpers
Slice(s, a, b) == IF a > b THEN <<>> ELSE SubSeq(s, a, b)

Contains(s, sym) == \E k \in DOMAIN s : s[k] = sym

\* Array.prototype.join over an array of strings
RECURSIVE Join(_, _)
Join(parts, sep) ==
  IF parts = <<>> THEN <<>>
  ELSE IF Len(parts) = 1 THEN parts[1]
  ELSE parts[1] \o sep \o Join(Tail(parts), sep)

\* index of the first occurrence of sym at or after p, 0 when there is none
RECURSIVE IndexFrom(_, _, _)
IndexFrom(s, sym, p) ==
  IF p > Len(s) THEN 0
  ELSE IF s[p] = sym THEN p
  ELSE IndexFrom(s, sym, p + 1)

\* index of the last occurrence of sym, 0 when there is none
RECURSIVE LastIndexOf(_, _, _)
LastIndexOf(s, sym, p) ==
  IF p < 1 THEN 0
  ELSE IF s[p] = sym THEN p
  ELSE LastIndexOf(s, sym, p - 1)

\* --------------------------------------------------- substituteVariables
\* the text ${key}
Placeholder(key) == <<"$", "{", key, "}">>

MatchesAt(s, p, key) ==
  /\ p + 3 <= Len(s)
  /\ SubSeq(s, p, p + 3) = Placeholder(key)

\* String.prototype.replace with a string replacement: the replacement
\* patterns $$, $&, $` and $' are expanded; any other $ is literal.
RECURSIVE ExpandReplacement(_, _, _, _, _)
ExpandReplacement(val, q, matched, before, after) ==
  IF q > Len(val) THEN <<>>
  ELSE IF val[q] = "$" /\ q < Len(val) /\ val[q + 1] \in {"$", "&", "`", "'"}
    THEN (CASE val[q + 1] = "$" -> <<"$">>
            [] val[q + 1] = "&" -> matched
            [] val[q + 1] = "`" -> before
            [] val[q + 1] = "'" -> after)
         \o ExpandReplacement(val, q + 2, matched, before, after)
  ELSE <<val[q]>> \o ExpandReplacement(val, q + 1, matched, before, after)

\* result.replace(new RegExp('\\$\\{key\\}', 'g'), value): every match in
\* the string as it is when the call starts, left to right
RECURSIVE ReplaceAllFrom(_, _, _, _)
ReplaceAllFrom(s, p, key, val) ==
  IF p > Len(s) THEN <<>>
  ELSE IF MatchesAt(s, p, key)
    THEN ExpandReplacement(val, 1, Placeholder(key),
                           Slice(s, 1, p - 1), Slice(s, p + 4, Len(s)))
         \o ReplaceAllFrom(s, p + 4, key, val)
  ELSE <<s[p]>> \o ReplaceAllFrom(s, p + 1, key, val)

ReplaceAll(s, key, val) == ReplaceAllFrom(s, 1, key, val)

\* variables is the object's key/value pairs in insertion order
RECURSIVE substituteVariablesFrom(_, _, _, _)
substituteVariablesFrom(result, variables, k, excludeKeys) ==
  IF k > Len(variables) THEN result
  ELSE IF variables[k][1] \in excludeKeys
    THEN substituteVariablesFrom(result, variables, k + 1, excludeKeys)
  ELSE substituteVariablesFrom(
         ReplaceAll(result, variables[k][1], variables[k][2]),
         variables, k + 1, excludeKeys)

substituteVariables(template, variables, excludeKeys) ==
  substituteVariablesFrom(template, variables, 1, excludeKeys)

\* ------------------------------------------------- command line splitting
IsSpace(c) == c \in {" ", "\t", "\n"}
IsQuote(c) == c \in {"\"", "'"}

\* end (exclusive) of the maximal run of [^\s"'] starting at p
RECURSIVE PlainRunEnd(_, _)
PlainRunEnd(s, p) ==
  IF p > Len(s) \/ IsSpace(s[p]) \/ IsQuote(s[p]) THEN p
  ELSE PlainRunEnd(s, p + 1)

\* one iteration of (?:[^\s"']+|"[^"]*"|'[^']*') at p: the position after
\* it, or 0 when no alternative matches
GroupEnd(s, p) ==
  IF p > Len(s) \/ IsSpace(s[p]) THEN 0
  ELSE IF IsQuote(s[p])
    THEN LET close == IndexFrom(s, s[p], p + 1)
         IN IF close = 0 THEN 0 ELSE close + 1
  ELSE PlainRunEnd(s, p)

\* the greedy + : the position after the longest match starting at p
RECURSIVE MatchEnd(_, _)
MatchEnd(s, p) ==
  LET e == GroupEnd(s, p)
  IN IF e = 0 THEN p ELSE MatchEnd(s, e)

\* substitutedContent.match(/(?:[^\s"']+|"[^"]*"|'[^']*')+/g) || []
RECURSIVE MatchParts(_, _)
MatchParts(s, p) ==
  IF p > Len(s) THEN <<>>
  ELSE LET e == MatchEnd(s, p)
       IN IF e > p THEN <<SubSeq(s, p, e - 1)>> \o MatchParts(s, e)
          ELSE MatchParts(s, p + 1)

commandParts(substitutedContent) == MatchParts(substitutedContent, 1)

\* content.split(' ')[0]
SplitFirst(s) ==
  LET sp == IndexFrom(s, " ", 1)
  IN IF sp = 0 THEN s ELSE Slice(s, 1, sp - 1)

\* ------------------------------------------------------------ path module
\* path.basename
basename(p) == Slice(p, LastIndexOf(p, "/", Len(p)) + 1, Len(p))

\* path.dirname of an absolute path
dirname(p) ==
  LET sl == LastIndexOf(p, "/", Len(p))
  IN IF sl <= 1 THEN <<"/">> ELSE Slice(p, 1, sl - 1)

\* path.resolve(root, p)
resolve(root, p) ==
  IF p # <<>> /\ p[1] = "/" THEN p ELSE root \o <<"/">> \o p

\* ------------------------------------------------------------ the inputs
\* HookInstance as JSON.parse delivers it: every field may be missing, and
\* the element may be null.  A non-object element such as 5 reads as an
\* object without fields.
Hook(type, name, content, path, output, description, isNull) ==
  [type |-> type, name |-> name, content |-> content, path |-> path,
   output |-> output, description |-> description, isNull |-> isNull]

ActionHook(name, description) ==
  Hook(Some("action"), name, None, None, None, description, FALSE)

CommandHook(content, output, description) ==
  Hook(Some("command"), None, content, None, output, description, FALSE)

ScriptHook(path, output, description) ==
  Hook(Some("script"), None, None, path, output, description, FALSE)

NullHook == Hook(None, None, None, None, None, None, TRUE)

OtherHook == Hook(Some("lint"), None, None, None, None, None, FALSE)

HookPool ==
  { ActionHook(Some(<<"fmt">>), None),
    ActionHook(None, Some(<<"Format">>)),
    CommandHook(Some(<<"echo", " ">> \o Placeholder("ACMOJ_FILE_CONTENT")),
                None, None),
    CommandHook(Some(<<"echo", " ", "x">>), Some("show"), Some(<<"Build">>)),
    CommandHook(Some(<<"echo", " ", "x">>), Some("submit"), None),
    CommandHook(Some(<<" ", "\"">>), Some("submit"), None),
    CommandHook(None, Some("submit"), None),
    CommandHook(None, Some("submit"), Some(<<"Build">>)),
    ScriptHook(Some(<<".acmoj", "/", "s.sh">>), Some("pipe"), None),
    OtherHook,
    NullHook }

RECURSIVE SeqsUpTo(_, _)
SeqsUpTo(S, n) ==
  IF n = 0 THEN {<<>>}
  ELSE LET shorter == SeqsUpTo(S, n - 1)
       IN shorter \cup {Append(s, x) : s \in {t \in shorter : Len(t) = n - 1}, x \in S}

HookLists == SeqsUpTo(HookPool, MaxHooks)

\* outcome of reading and parsing .acmoj/pre-submit.json
ConfigStates == {"noFolder", "ENOENT", "EACCES", "badJson", "notArray", "array"}

\* what a process may print
StdoutPool == {<<>>, <<"A">>, <<"B", "\n">>}

\* what it may print on stderr
StderrPool == {<<>>, <<"E", "\n">>}

\* the captured streams of a process that ran
OutputPool ==
  { o \in [stdout : StdoutPool, stderr : StderrPool] :
      (o.stdout = <<"A">>) = (o.stderr = <<>>) }

\* a process that printed on both streams
BothStreams == [stdout |-> <<"B", "\n">>, stderr |-> <<"E", "\n">>]

\* the streams when the shell finds no such command or script
NotFoundOutput == [stdout |-> <<>>, stderr |-> <<"sh: not found">>]

\* the document: its path, its text when the command starts, and the text
\* an editor action leaves in it
originalFilePath == <<"/", "w", "/", "sol", ".", "cpp">>
workspaceFolder == <<"/", "w">>
InitialText == <<"D0">>
EditedText == <<"D1">>
ProblemIdComment == <<"// acmoj: 1", "\n">>

\* ------------------------------------------------------------- the state
VARIABLES
  pc,                          \* where the command / the pipeline stands
  cfg,                         \* what reading .acmoj/pre-submit.json yields
  hooks,                       \* the parsed array
  selectedLanguage,
  docText,                     \* document.getText()
  initialFileContent,
  i,                           \* loop index, 0-based
  hookDisplayName,
  currentFileContentForHooks,
  currentInputForNextPipe,     \* optional
  preSubmitStringAccumulator,
  anyOutputSubmitUsed,
  child,                       \* the spawned process, optional
  hookResult,                  \* the returned PreSubmitResult, optional
  thrown,                      \* message of the error thrown, optional
  codeToSubmitForOJ,
  submitCodeCalls,             \* code handed to submissionService.submitCode
  monitoredSubmissions,
  steps,                       \* history: one entry per step started
  failedAt,                    \* history: index of the step that failed
  subst,                       \* a call of substituteVariables on its own
  naming,                      \* the variables of a file on their own
  api,                         \* a call of ApiClient.request
  monitor,                     \* SubmissionMonitorService
  calls                        \* two calls of processPreSubmitHooks

vars == <<pc, cfg, hooks, selectedLanguage, docText, initialFileContent, i,
          hookDisplayName, currentFileContentForHooks,
          currentInputForNextPipe, preSubmitStringAccumulator,
          anyOutputSubmitUsed, child, hookResult, thrown, codeToSubmitForOJ,
          submitCodeCalls, monitoredSubmissions, steps, failedAt, subst,
          naming, api, monitor, calls>>

cmdVars == <<codeToSubmitForOJ, submitCodeCalls, monitoredSubmissions>>
inputVars == <<cfg, hooks, selectedLanguage, subst, naming, api, monitor,
               calls>>
loopVars == <<i, hookDisplayName, currentFileContentForHooks,
              currentInputForNextPipe, preSubmitStringAccumulator,
              anyOutputSubmitUsed, child, steps, failedAt>>
hookRunVars == <<pc, cfg, hooks, selectedLanguage, docText,
                 initialFileContent, loopVars, hookResult, thrown,
                 codeToSubmitForOJ, submitCodeCalls, calls>>
pipelineVars == <<hookRunVars, monitoredSubmissions>>

\* ----------------------------------------------------- per-run constants
originalFileName == basename(originalFilePath)

\* variant: the name is cut at its first dot
fileNameNoSuffix_FirstDot(fileName) ==
  IF Contains(fileName, ".")
  THEN Slice(fileName, 1, IndexFrom(fileName, ".", 1) - 1)
  ELSE fileName

\* fileName.includes('.') ? fileName.substring(0, fileName.lastIndexOf('.'))
\* : fileName
fileNameNoSuffix(fileName) ==
  IF Contains(fileName, ".")
  THEN Slice(fileName, 1, LastIndexOf(fileName, ".", Len(fileName)) - 1)
  ELSE fileName

originalFileNameNoSuffix == fileNameNoSuffix(originalFileName)

originalFileDir == dirname(originalFilePath)

\* the variables of a step for the document at filePath
hookVariablesFor(filePath, content) ==
  << <<"ACMOJ_FILE_PATH", filePath>>,
     <<"ACMOJ_FILE_NAME", basename(filePath)>>,
     <<"ACMOJ_FILE_NAME_NO_SUFFIX", fileNameNoSuffix(basename(filePath))>>,
     <<"ACMOJ_FILE_DIR", dirname(filePath)>>,
     <<"ACMOJ_FILE_CONTENT", content>> >>

allHookVariables(content) == hookVariablesFor(originalFilePath, content)

\* a JavaScript truthy string: defined and not empty
Truthy(o) == o # None /\ Get(o) # <<>>

IsProcessHook(hook) == hook.type \in {Some("command"), Some("script")}

\* evaluating the hookDisplayName expression throws a TypeError: the
\* element is null, or split / path.basename is applied to undefined
hookDisplayNameThrows(hook) ==
  \/ hook.isNull
  \/ /\ ~Truthy(hook.description)
     /\ \/ hook.type = Some("command") /\ hook.content = None
        \/ hook.type = Some("script") /\ hook.path = None

hookDisplayNameOf(hook, idx) ==
  IF Truthy(hook.description) THEN Get(hook.description)
  ELSE IF hook.type = Some("action")
    THEN (IF hook.name = None THEN <<"undefined">> ELSE Get(hook.name))
  ELSE IF hook.type = Some("command") THEN SplitFirst(Get(hook.content))
  ELSE IF hook.type = Some("script") THEN basename(Get(hook.path))
  ELSE <<"hook #", ToString(idx + 1)>>

\* variant: a missing output field means pipe
outputMode_DefaultPipe(hook) ==
  IF hook.output = None \/ Get(hook.output) = "" THEN "pipe"
  ELSE Get(hook.output)

\* hook.output || 'ignore'
outputMode(hook) ==
  IF hook.output = None \/ Get(hook.output) = "" THEN "ignore"
  ELSE Get(hook.output)

TypeErrorMsg == <<"Cannot read properties of undefined">>
EmptyCommandMsg == <<"Command hook content is empty or invalid">>
ActionErrorMsg == <<"command not found">>
SpawnErrorMsg == <<"spawn ENOENT">>

NotifierErrorMsg == <<"Channel has been closed">>

\* variant: the message leaves the captured streams out
ExitErrorMsg_NoStreams(fullCommandString, code, stdout, stderr) ==
  <<"Command \"">> \o fullCommandString \o <<"\" exited with code ", code, ".">>

ExitErrorMsg(fullCommandString, code, stdout, stderr) ==
  <<"Command \"">> \o fullCommandString \o <<"\" exited with code ", code>>
  \o <<".\nStderr: ">> \o stderr \o <<"\nStdout: ">> \o stdout

ConfigErrorMsg ==
  <<"Error in .acmoj/pre-submit.json: ">>
  \o (CASE cfg = "EACCES" -> <<"EACCES: permission denied">>
        [] cfg = "badJson" -> <<"Unexpected token">>
        [] OTHER -> <<".acmoj/pre-submit.json should be an array.">>)

PreSubmitResult(content, outputUsed, error) ==
  [content |-> content, outputUsed |-> outputUsed, error |-> error]

\* command is the action name handed to executeCommand or the command
\* line handed to the shell; event, ran, stdout and stderr describe how
\* the process ended, value and error how processPromise settled; cause
\* is what the catch block caught; notified lists the messages shown
StepEntry(idx, kind, mode, stdin, command) ==
  [idx |-> idx, kind |-> kind, mode |-> mode, stdin |-> stdin,
   command |-> command, status |-> "running", stdout |-> <<>>,
   observed |-> None, stderr |-> <<>>, event |-> "", ran |-> FALSE,
   value |-> None, error |-> None, cause |-> "", notified |-> <<>>]

Finished(entry, status, stdout) ==
  [entry EXCEPT !.status = status, !.stdout = stdout]

FailedBy(entry, cause) ==
  [Finished(entry, "failed", entry.stdout) EXCEPT !.cause = cause]

LastStepDone(status, stdout) ==
  [steps EXCEPT ![Len(steps)] = Finished(steps[Len(steps)], status, stdout)]

LastStepFailedBy(cause) ==
  [steps EXCEPT ![Len(steps)] = FailedBy(steps[Len(steps)], cause)]

SubstCall(template, variables, excludeKeys) ==
  [template |-> template, variables |-> variables,
   excludeKeys |-> excludeKeys, result |-> None]

NoSubstCall == SubstCall(<<>>, <<>>, {})

\* a document path and the command line built for it
Naming(filePath, template) ==
  [filePath |-> filePath, template |-> template, commandLine |-> None]

NoNaming == Naming(<<>>, <<>>)

\* ApiClient.request: the configured retryCount, the locals attempt and
\* lastError, where the call stands, and the responses its attempts got
ApiRequest(retryCount) ==
  [retryCount |-> retryCount, attempt |-> 0, lastError |-> None,
   at |-> "while", responses |-> <<>>, unauthorizedHandled |-> 0]

NoApiRequest == [ApiRequest(0) EXCEPT !.at = "none"]

\* the submission ids the monitor is given
SubmissionIds == {1, 2}

\* SubmissionMonitorService next to its list monitoredSubmissions: the
\* configured interval and timeout, the timer, which array the list is
\* (stop() assigns a new one), the attempts kept in the cache, the calls of
\* checkSubmissions under way; and, of the world, the submissions judged
\* and, as history, the ids added, the ticks, the fetches settled per id
\* and the terminal-status notifications shown per id
Monitor(interval, timeout) ==
  [interval |-> interval, timeout |-> timeout, timer |-> FALSE,
   array |-> 0, cache |-> [id \in SubmissionIds |-> 0], checks |-> <<>>,
   judged |-> {}, added |-> {}, ticks |-> 0,
   fetches |-> [id \in SubmissionIds |-> 0],
   terminalShown |-> [id \in SubmissionIds |-> 0]]

NoMonitor == Monitor(1, 1)

\* the ids of two calls of processPreSubmitHooks
CallIds == {1, 2}

\* the locals of a call that its steps read and write
Context(initialContent) ==
  [currentFileContentForHooks |-> initialContent,
   currentInputForNextPipe |-> None,
   preSubmitStringAccumulator |-> <<>>,
   anyOutputSubmitUsed |-> FALSE]

\* a call: its parsed array, where it stands, its loop index, its
\* argument initialFileContent, the pending input its running process was
\* spawned with, what it returned; log is the history of its step outcomes
Call(hookList) ==
  [hooks |-> hookList, pc |-> "idle", i |-> 0, initialFileContent |-> <<>>,
   spawnedWith |-> None, result |-> None, log |-> <<>>]

\* the document, the contexts and the calls
Calls(first, second) ==
  [document |-> InitialText,
   context |-> [slot \in CallIds |-> Context(<<>>)],
   call |-> [r \in CallIds |-> IF r = 1 THEN Call(first) ELSE Call(second)]]

NoCalls == [document |-> <<>>, context |-> <<>>, call |-> <<>>]

\* ------------------------------------------------------------------ Init
Init ==
  /\ pc = "cmd"
  /\ subst = NoSubstCall
  /\ naming = NoNaming
  /\ api = NoApiRequest
  /\ monitor = NoMonitor
  /\ calls = NoCalls
  /\ cfg \in ConfigStates
  /\ hooks \in (IF cfg = "array" THEN HookLists ELSE {<<>>})
  /\ selectedLanguage \in {"cpp", "git"}
  /\ docText = InitialText
  /\ initialFileContent = InitialText
  /\ i = 0
  /\ hookDisplayName = <<>>
  /\ currentFileContentForHooks = InitialText
  /\ currentInputForNextPipe = None
  /\ preSubmitStringAccumulator = <<>>
  /\ anyOutputSubmitUsed = FALSE
  /\ child = None
  /\ hookResult = None
  /\ thrown = None
  /\ codeToSubmitForOJ = InitialText
  /\ submitCodeCalls = <<>>
  /\ monitoredSubmissions = <<>>
  /\ steps = <<>>
  /\ failedAt = None

\* ------------------------------------------- acmoj.submitCurrentFile, I
\* language chosen; for a language other than git the document is saved
\* and processPreSubmitHooks is called with its text
StartPreSubmitHooks ==
  /\ pc = "cmd"
  /\ IF selectedLanguage # "git"
     THEN /\ pc' = "load"
          /\ initialFileContent' = docText
     ELSE /\ pc' = "choose"
          /\ UNCHANGED initialFileContent
  /\ UNCHANGED <<inputVars, docText, loopVars, hookResult, thrown, cmdVars>>

\* ------------------------------------------------ processPreSubmitHooks
Return(result) ==
  /\ hookResult' = Some(result)
  /\ pc' = "returned"

\* variant: a JSON value that is not an array is taken as the hook list
ReadConfig_NoArrayCheck(c) ==
  IF c \in {"noFolder", "ENOENT"} THEN "none"
  ELSE IF c \in {"array", "notArray"} THEN "hooks"
  ELSE "error"

\* variant: a missing file is reported like any other read error
ReadConfig_NoEnoentCase(c) ==
  IF c = "noFolder" THEN "none"
  ELSE IF c = "array" THEN "hooks"
  ELSE "error"

\* workspace folder lookup, readFile, JSON.parse and the Array.isArray
\* test: no config ("none"), a config error, or the hook list
ReadConfig(c) ==
  IF c \in {"noFolder", "ENOENT"} THEN "none"
  ELSE IF c = "array" THEN "hooks"
  ELSE "error"

\* the notifier threw outside the try block of a step
NotifierThrows ==
  /\ thrown' = Some(NotifierErrorMsg)
  /\ pc' = "threw"

\* the output channel is cleared and written to before the loop is
\* entered, which may throw
LoadConfig ==
  /\ pc = "load"
  /\ IF ReadConfig(cfg) = "none"
     THEN /\ Return(PreSubmitResult(initialFileContent, FALSE, None))
          /\ UNCHANGED <<loopVars, thrown>>
     ELSE IF ReadConfig(cfg) = "error"
     THEN /\ Return(PreSubmitResult(initialFileContent, FALSE,
                                    Some(ConfigErrorMsg)))
          /\ UNCHANGED <<loopVars, thrown>>
     ELSE IF Len(hooks) = 0
     THEN /\ Return(PreSubmitResult(initialFileContent, FALSE, None))
          /\ UNCHANGED <<loopVars, thrown>>
     ELSE \E logged \in BOOLEAN :
       IF ~logged
       THEN /\ NotifierThrows
            /\ UNCHANGED <<loopVars, hookResult>>
       ELSE /\ pc' = "loop"
            /\ currentFileContentForHooks' = initialFileContent
            /\ currentInputForNextPipe' = None
            /\ preSubmitStringAccumulator' = <<>>
            /\ anyOutputSubmitUsed' = FALSE
            /\ i' = 0
            /\ UNCHANGED <<hookDisplayName, child, steps, failedAt,
                           hookResult, thrown>>
  /\ UNCHANGED <<inputVars, docText, initialFileContent, cmdVars>>

\* variant: the catch block logs the error and the step is run again
HookFailed_Retried(name, errorMsg) ==
  /\ thrown' = thrown
  /\ failedAt' = failedAt
  /\ pc' = "loop"
  /\ i' = i
  /\ hookResult' = hookResult

\* variant: the catch block logs the error and does not rethrow
HookFailed_Swallowed(name, errorMsg) ==
  /\ thrown' = thrown
  /\ failedAt' = Some(i)
  /\ pc' = "loop"
  /\ i' = i + 1
  /\ hookResult' = hookResult

\* variant: the catch block reports the failure in the result's error
HookFailed_AsResultError(name, errorMsg) ==
  /\ thrown' = thrown
  /\ failedAt' = Some(i)
  /\ pc' = "returned"
  /\ i' = i
  /\ hookResult' = Some([content |-> currentFileContentForHooks,
                         outputUsed |-> anyOutputSubmitUsed,
                         error |-> Some(<<"Hook ">> \o name \o <<" failed: ">>
                                        \o errorMsg)])

\* the catch block of a step: log, then throw the wrapped error
HookFailed(name, errorMsg) ==
  /\ thrown' = Some(<<"Hook ">> \o name \o <<" failed: ">> \o errorMsg)
  /\ failedAt' = Some(i)
  /\ pc' = "threw"
  /\ i' = i
  /\ hookResult' = hookResult

\* the hookDisplayName expression, evaluated outside the try block, throws
DisplayNameThrows ==
  /\ pc = "loop"
  /\ i < Len(hooks)
  /\ hookDisplayNameThrows(hooks[i + 1])
  /\ thrown' = Some(TypeErrorMsg)
  /\ failedAt' = Some(i)
  /\ pc' = "threw"
  /\ UNCHANGED <<inputVars, docText, initialFileContent, i, hookDisplayName,
                 currentFileContentForHooks, currentInputForNextPipe,
                 preSubmitStringAccumulator, anyOutputSubmitUsed, child,
                 steps, hookResult, cmdVars>>

\* action step up to the await of executeCommand; progress.report may
\* throw
ActionInvoke ==
  /\ pc = "loop"
  /\ i < Len(hooks)
  /\ LET hook == hooks[i + 1]
         name == hookDisplayNameOf(hook, i)
         entry == StepEntry(i, "action", "", None, <<>>)
     IN /\ ~hookDisplayNameThrows(hook)
        /\ hook.type = Some("action")
        /\ hookDisplayName' = name
        /\ \E reported \in BOOLEAN :
             IF ~reported
             THEN /\ HookFailed(name, NotifierErrorMsg)
                  /\ steps' = Append(steps, FailedBy(entry, "notifier"))
             ELSE IF hook.name = None
             THEN /\ HookFailed(name, TypeErrorMsg)
                  /\ steps' = Append(steps, FailedBy(entry, "typeError"))
             ELSE /\ pc' = "action_running"
                  /\ steps' = Append(steps, StepEntry(i, "action", "", None,
                       substituteVariables(Get(hook.name),
                         allHookVariables(currentFileContentForHooks), {})))
                  /\ UNCHANGED <<i, thrown, failedAt, hookResult>>
  /\ UNCHANGED <<inputVars, docText, initialFileContent,
                 currentFileContentForHooks, currentInputForNextPipe,
                 preSubmitStringAccumulator, anyOutputSubmitUsed, child,
                 cmdVars>>

\* variant: the text is never re-read
activeDocumentText_Never(stillActive, newText, current) == current

\* variant: the text is re-read whichever editor is active
activeDocumentText_Always(stillActive, newText, current) == newText

\* the text for the next hook after an action: the document's text when it
\* is still the active editor's, the text held so far otherwise
activeDocumentText(stillActive, newText, current) ==
  IF stillActive THEN newText ELSE current

\* executeCommand settles; on success the text is re-read when the
\* document is still the active editor's, and outputChannel.appendLine,
\* which may throw, comes before the reset of the pending input
ActionReturn ==
  /\ pc = "action_running"
  /\ \E ok \in BOOLEAN, newText \in {docText, EditedText},
        stillActive \in BOOLEAN, logged \in BOOLEAN :
       LET observed == IF stillActive THEN Some(newText) ELSE None
       IN IF ~ok
          THEN /\ logged
               /\ HookFailed(hookDisplayName, ActionErrorMsg)
               /\ steps' = LastStepFailedBy("action")
               /\ UNCHANGED <<docText, currentFileContentForHooks,
                              currentInputForNextPipe>>
          ELSE /\ docText' = newText
               /\ currentFileContentForHooks' =
                    activeDocumentText(stillActive, newText,
                                       currentFileContentForHooks)
               /\ IF logged
                  THEN /\ currentInputForNextPipe' = None
                       /\ steps' = [LastStepDone("ok", <<>>)
                                      EXCEPT ![Len(steps)].observed = observed]
                       /\ i' = i + 1
                       /\ pc' = "loop"
                       /\ UNCHANGED <<thrown, failedAt, hookResult>>
                  ELSE /\ HookFailed(hookDisplayName, NotifierErrorMsg)
                       /\ steps' = [LastStepFailedBy("notifier")
                                      EXCEPT ![Len(steps)].observed = observed]
                       /\ UNCHANGED currentInputForNextPipe
  /\ UNCHANGED <<inputVars, initialFileContent, hookDisplayName,
                 preSubmitStringAccumulator, anyOutputSubmitUsed, child,
                 cmdVars>>

\* variant: the file content is substituted into the command line too
commandPartsOf_ContentSubstituted(hook, content) ==
  IF hook.type = Some("command")
  THEN commandParts(substituteVariables(Get(hook.content),
                      allHookVariables(content), {}))
  ELSE <<substituteVariables(resolve(workspaceFolder, Get(hook.path)),
                      allHookVariables(content), {})>>

\* the string substituted and split for a command, the resolved and
\* substituted path for a script
commandPartsOf(hook, content) ==
  IF hook.type = Some("command")
  THEN commandParts(substituteVariables(Get(hook.content),
                      allHookVariables(content), {"ACMOJ_FILE_CONTENT"}))
  ELSE <<substituteVariables(resolve(workspaceFolder, Get(hook.path)),
                      allHookVariables(content), {"ACMOJ_FILE_CONTENT"})>>

\* the command and script entries with their content or path defined
ProcessHooks ==
  { h \in HookPool :
      \/ h.type = Some("command") /\ h.content # None
      \/ h.type = Some("script") /\ h.path # None }

\* commandPartsOf for each such entry and each text of the document
commandPartsFor ==
  [h \in ProcessHooks, content \in {InitialText, EditedText} |->
     commandPartsOf(h, content)]

\* variant: stdin is ended only after a write
spawn_OpenWithoutInput(fullCommandString, env, pendingStdin) ==
  [command |-> fullCommandString,
   env |-> env,
   stdinData |-> IF pendingStdin # None THEN Get(pendingStdin) ELSE <<>>,
   stdinWrites |-> IF pendingStdin # None THEN <<Get(pendingStdin)>> ELSE <<>>,
   stdinEnded |-> pendingStdin # None]

\* stdin wiring right after spawn: write pending input if any, then end;
\* stdinWrites lists the calls of child.stdin.write
spawn(fullCommandString, env, pendingStdin) ==
  [command |-> fullCommandString,
   env |-> env,
   stdinData |-> IF pendingStdin # None THEN Get(pendingStdin) ELSE <<>>,
   stdinWrites |-> IF pendingStdin # None THEN <<Get(pendingStdin)>> ELSE <<>>,
   stdinEnded |-> TRUE]

\* variant: the loop goes on without waiting for the process
awaitProcessPromise_NotAwaited ==
  /\ pc' = "loop"
  /\ i' = i + 1
  /\ UNCHANGED <<thrown, failedAt, hookResult>>

\* await processPromise: the step is suspended until the process settles
awaitProcessPromise ==
  /\ pc' = "process_running"
  /\ UNCHANGED <<i, thrown, failedAt, hookResult>>

\* command / script step up to the await of processPromise;
\* progress.report may throw
ProcessSpawn ==
  /\ pc = "loop"
  /\ i < Len(hooks)
  /\ LET hook == hooks[i + 1]
         name == hookDisplayNameOf(hook, i)
         undefinedField == IF hook.type = Some("command")
                           THEN hook.content = None ELSE hook.path = None
         entry == StepEntry(i, "process", outputMode(hook), None, <<>>)
     IN /\ ~hookDisplayNameThrows(hook)
        /\ IsProcessHook(hook)
        /\ hookDisplayName' = name
        /\ IF undefinedField
           THEN /\ HookFailed(name, TypeErrorMsg)
                /\ steps' = Append(steps, FailedBy(entry, "typeError"))
                /\ UNCHANGED child
           ELSE LET parts == commandPartsFor[hook, currentFileContentForHooks]
                IN IF parts = <<>>
                   THEN /\ HookFailed(name, EmptyCommandMsg)
                        /\ steps' = Append(steps, FailedBy(entry, "empty"))
                        /\ UNCHANGED child
                   ELSE \E reported \in BOOLEAN :
                     IF ~reported
                     THEN /\ HookFailed(name, NotifierErrorMsg)
                          /\ steps' = Append(steps,
                                             FailedBy(entry, "notifier"))
                          /\ UNCHANGED child
                     ELSE /\ child' = Some(spawn(Join(parts, <<" ">>),
                                   allHookVariables(currentFileContentForHooks),
                                   currentInputForNextPipe))
                          /\ steps' = Append(steps,
                               StepEntry(i, "process", outputMode(hook),
                                         IF currentInputForNextPipe # None
                                         THEN currentInputForNextPipe
                                         ELSE Some(<<>>),
                                         Join(parts, <<" ">>)))
                          /\ awaitProcessPromise
  /\ UNCHANGED <<inputVars, docText, initialFileContent,
                 currentFileContentForHooks, currentInputForNextPipe,
                 preSubmitStringAccumulator, anyOutputSubmitUsed, cmdVars>>

\* variant: output mode show hands stdout on like pipe
RouteOutput_ShowPipes(mode, stdout) ==
  /\ currentInputForNextPipe' =
       (IF mode \in {"pipe", "show"} THEN Some(stdout) ELSE None)
  /\ preSubmitStringAccumulator' =
       (IF mode = "submit" THEN Append(preSubmitStringAccumulator, stdout)
        ELSE preSubmitStringAccumulator)
  /\ anyOutputSubmitUsed' = (anyOutputSubmitUsed \/ mode = "submit")

\* variant: submit output is put in front of the accumulator
RouteOutput_Prepend(mode, stdout) ==
  /\ currentInputForNextPipe' = (IF mode = "pipe" THEN Some(stdout) ELSE None)
  /\ preSubmitStringAccumulator' =
       (IF mode = "submit" THEN <<stdout>> \o preSubmitStringAccumulator
        ELSE preSubmitStringAccumulator)
  /\ anyOutputSubmitUsed' = (anyOutputSubmitUsed \/ mode = "submit")

\* what the output mode does with the stdout of a process that exited 0
RouteOutput(mode, stdout) ==
  /\ currentInputForNextPipe' = (IF mode = "pipe" THEN Some(stdout) ELSE None)
  /\ preSubmitStringAccumulator' =
       (IF mode = "submit" THEN Append(preSubmitStringAccumulator, stdout)
        ELSE preSubmitStringAccumulator)
  /\ anyOutputSubmitUsed' = (anyOutputSubmitUsed \/ mode = "submit")

\* String.prototype.trim on the captured text
IsBlank(sym) == sym \in {" ", "\n", "\t"}

RECURSIVE trimStart(_)
trimStart(s) ==
  IF s # <<>> /\ IsBlank(s[1]) THEN trimStart(Tail(s)) ELSE s

RECURSIVE trimEnd(_)
trimEnd(s) ==
  IF s # <<>> /\ IsBlank(s[Len(s)])
  THEN trimEnd(SubSeq(s, 1, Len(s) - 1)) ELSE s

trim(s) == trimEnd(trimStart(s))

\* the messages output mode show puts on screen
Notifications(mode, name, out) ==
  IF mode # "show" THEN <<>>
  ELSE (IF trim(out.stdout) # <<>>
        THEN << <<"info", <<"Output from \"">> \o name \o <<"\":\n">>
                          \o trim(out.stdout)>> >>
        ELSE <<>>)
       \o
       (IF trim(out.stderr) # <<>>
        THEN << <<"warning", <<"Error output from \"">> \o name \o <<"\":\n">>
                             \o trim(out.stderr)>> >>
        ELSE <<>>)

\* the routing of a mode calls the notifier: show with something to show,
\* pipe and submit
RoutingNotifies(mode, name, out) ==
  mode \in {"pipe", "submit"} \/ Notifications(mode, name, out) # <<>>

\* the process has ended
Closed(entry, event, ran, out) ==
  [entry EXCEPT !.event = event, !.ran = ran,
                !.stdout = out.stdout, !.stderr = out.stderr]

\* variant: a timer gives the process up while it is still running
ProcessError_TimedOut ==
  /\ HookFailed(hookDisplayName, <<"timed out">>)
  /\ steps' = [steps EXCEPT ![Len(steps)] = FailedBy(@, "timeout")]
  /\ UNCHANGED <<currentInputForNextPipe, preSubmitStringAccumulator,
                 anyOutputSubmitUsed>>

\* 'error': the shell could not be spawned, processPromise rejects with
\* the error of spawn
ProcessError ==
  /\ HookFailed(hookDisplayName, SpawnErrorMsg)
  /\ steps' = [steps EXCEPT ![Len(steps)] =
       [FailedBy(@, "spawn") EXCEPT !.event = "error",
                                    !.error = Some(SpawnErrorMsg)]]
  /\ UNCHANGED <<currentInputForNextPipe, preSubmitStringAccumulator,
                 anyOutputSubmitUsed>>

\* 'close' with a code other than 0, null when a signal ended the process;
\* 127 is also what the shell gives when it finds no such command or
\* script, and then the command of the step did not run; the outputs are
\* varied for code 1 only
ProcessCloseNonZero ==
  \E code \in {"1", "127", "null"}, ran \in BOOLEAN, o \in OutputPool :
    LET out == IF code = "127" THEN NotFoundOutput ELSE o
        message == ExitErrorMsg(Get(child).command, code,
                                out.stdout, out.stderr)
    IN /\ code # "127" => ran
       /\ code # "1" => o = BothStreams
       /\ HookFailed(hookDisplayName, message)
       /\ steps' = [steps EXCEPT ![Len(steps)] =
            [FailedBy(Closed(@, code, ran, out), "exit")
               EXCEPT !.error = Some(message)]]
       /\ UNCHANGED <<currentInputForNextPipe, preSubmitStringAccumulator,
                      anyOutputSubmitUsed>>

\* 'close' with code 0: processPromise resolves, the pending input is
\* reset, the step is logged and the output routed; outputChannel.appendLine
\* and the show messages may throw, which is followed for one output
ProcessCloseZero ==
  \E out \in OutputPool, notifier \in {"ok", "logThrows", "routingThrows"} :
    LET hook == hooks[i + 1]
        mode == outputMode(hook)
        closed == [Closed(steps[Len(steps)], "0", TRUE, out)
                     EXCEPT !.value = Some(out)]
    IN IF notifier = "logThrows"
       THEN /\ out = BothStreams
            /\ HookFailed(hookDisplayName, NotifierErrorMsg)
            /\ currentInputForNextPipe' = None
            /\ steps' = [steps EXCEPT ![Len(steps)] =
                           FailedBy(closed, "notifier")]
            /\ UNCHANGED <<preSubmitStringAccumulator, anyOutputSubmitUsed>>
       ELSE IF notifier = "routingThrows"
       THEN /\ out = BothStreams
            /\ RoutingNotifies(mode, hookDisplayName, out)
            /\ HookFailed(hookDisplayName, NotifierErrorMsg)
            /\ RouteOutput(mode, out.stdout)
            /\ steps' = [steps EXCEPT ![Len(steps)] =
                           FailedBy(closed, "notifier")]
       ELSE /\ RouteOutput(mode, out.stdout)
            /\ steps' = [steps EXCEPT ![Len(steps)] =
                 [Finished(closed, "ok", out.stdout) EXCEPT !.notified =
                    Notifications(mode, hookDisplayName, out)]]
            /\ i' = i + 1
            /\ pc' = "loop"
            /\ UNCHANGED <<thrown, failedAt, hookResult>>

\* processPromise settles
ProcessClose ==
  /\ pc = "process_running"
  /\ \/ ProcessError
     \/ ProcessCloseNonZero
     \/ ProcessCloseZero
  /\ child' = None
  /\ UNCHANGED <<inputVars, docText, initialFileContent, hookDisplayName,
                 currentFileContentForHooks, cmdVars>>

\* an element whose type is none of action, command, script: no branch of
\* the step body applies
OtherTypeStep ==
  /\ pc = "loop"
  /\ i < Len(hooks)
  /\ LET hook == hooks[i + 1]
     IN /\ ~hookDisplayNameThrows(hook)
        /\ hook.type # Some("action")
        /\ ~IsProcessHook(hook)
        /\ hookDisplayName' = hookDisplayNameOf(hook, i)
  /\ steps' = Append(steps, Finished(StepEntry(i, "other", "", None, <<>>), "ok", <<>>))
  /\ i' = i + 1
  /\ UNCHANGED <<pc, inputVars, docText, initialFileContent,
                 currentFileContentForHooks, currentInputForNextPipe,
                 preSubmitStringAccumulator, anyOutputSubmitUsed, child,
                 failedAt, hookResult, thrown, cmdVars>>

\* variant: an empty combined output falls back to the file content
finalContentToSubmit_EmptyFallsBack ==
  IF anyOutputSubmitUsed /\ Join(preSubmitStringAccumulator, <<>>) # <<>>
  THEN Join(preSubmitStringAccumulator, <<>>)
  ELSE currentFileContentForHooks

\* preSubmitStringAccumulator.join('') when a submit-mode step has run,
\* the tracked file content otherwise
finalContentToSubmit ==
  IF anyOutputSubmitUsed
  THEN Join(preSubmitStringAccumulator, <<>>)
  ELSE currentFileContentForHooks

\* after the loop: the final content is assembled, the output channel
\* written to, which may throw, and the result returned
AssembleResult ==
  /\ pc = "loop"
  /\ i >= Len(hooks)
  /\ \E logged \in BOOLEAN :
       IF ~logged
       THEN /\ NotifierThrows
            /\ UNCHANGED hookResult
       ELSE /\ Return(PreSubmitResult(finalContentToSubmit,
                                       anyOutputSubmitUsed, None))
            /\ UNCHANGED thrown
  /\ UNCHANGED <<inputVars, docText, initialFileContent, loopVars, cmdVars>>

\* ------------------------------------------ acmoj.submitCurrentFile, II
\* variant: the error is shown and the command goes on to submit
HookResultError_WarnOnly ==
  /\ pc = "returned"
  /\ Truthy(Get(hookResult).error)
  /\ pc' = "confirm"
  /\ UNCHANGED <<inputVars, docText, initialFileContent, loopVars, hookResult,
                 thrown, cmdVars>>

\* hookResult.error is set: message shown, the command returns
HookResultError ==
  /\ pc = "returned"
  /\ Truthy(Get(hookResult).error)
  /\ pc' = "aborted"
  /\ UNCHANGED <<inputVars, docText, initialFileContent, loopVars, hookResult,
                 thrown, cmdVars>>

\* processPreSubmitHooks threw: message shown, the command returns
CriticalHookError ==
  /\ pc = "threw"
  /\ pc' = "aborted"
  /\ UNCHANGED <<inputVars, docText, initialFileContent, loopVars, hookResult,
                 thrown, cmdVars>>

\* ensureDocumentHasProblemIdComment: the comment line is put in front
\* unless it is there already or the edit is not applied
WithProblemIdComment(text, applied) ==
  IF applied /\ (text = <<>> \/ text[1] # ProblemIdComment[1])
  THEN ProblemIdComment \o text
  ELSE text

\* variant: the content of the hook result is submitted in both cases
finalCode_AlwaysContent(result, documentText) == result.content

\* codeToSubmitForOJ for a hook result: its content when outputUsed, else
\* the text of the document read after the problem-ID comment edit
finalCode(result, documentText) ==
  IF result.outputUsed THEN result.content ELSE documentText

\* the code to submit after a hook run without error
DetermineFinalCode ==
  /\ pc = "returned"
  /\ ~Truthy(Get(hookResult).error)
  /\ \E applied \in BOOLEAN :
       /\ docText' = WithProblemIdComment(docText, applied)
       /\ codeToSubmitForOJ' = finalCode(Get(hookResult), docText')
  /\ pc' = "confirm"
  /\ UNCHANGED <<inputVars, initialFileContent, loopVars, hookResult, thrown,
                 submitCodeCalls, monitoredSubmissions>>

\* language git: hooks are skipped; a remote URL or the file is chosen
GitSubmission ==
  /\ pc = "choose"
  /\ \E choice \in {"noRemotes", "dismissed", "remote", "file"} :
       /\ pc' = (CASE choice = "noRemotes" -> "aborted"
                   [] choice = "dismissed" -> "cancelled"
                   [] OTHER -> "confirm")
       /\ codeToSubmitForOJ' =
            (IF choice = "remote" THEN <<"https://git/repo">>
             ELSE codeToSubmitForOJ)
  /\ UNCHANGED <<inputVars, docText, initialFileContent, loopVars, hookResult,
                 thrown, submitCodeCalls, monitoredSubmissions>>

Confirm ==
  /\ pc = "confirm"
  /\ \E answer \in {"Yes", "No"} :
       pc' = (IF answer = "Yes" THEN "submitting" ELSE "cancelled")
  /\ UNCHANGED <<inputVars, docText, initialFileContent, loopVars, hookResult,
                 thrown, cmdVars>>

\* submitCode is called; its id is handed to the monitor when it succeeds
SubmitCode ==
  /\ pc = "submitting"
  /\ submitCodeCalls' = Append(submitCodeCalls, codeToSubmitForOJ)
  /\ \E ok \in BOOLEAN :
       monitoredSubmissions' =
         (IF ok THEN Append(monitoredSubmissions, Len(submitCodeCalls) + 1)
          ELSE monitoredSubmissions)
  /\ pc' = "done"
  /\ UNCHANGED <<inputVars, docText, initialFileContent, loopVars, hookResult,
                 thrown, codeToSubmitForOJ>>

Next ==
  \/ StartPreSubmitHooks
  \/ LoadConfig
  \/ DisplayNameThrows
  \/ ActionInvoke
  \/ ActionReturn
  \/ ProcessSpawn
  \/ ProcessClose
  \/ OtherTypeStep
  \/ AssembleResult
  \/ HookResultError
  \/ CriticalHookError
  \/ DetermineFinalCode
  \/ GitSubmission
  \/ Confirm
  \/ SubmitCode

Spec == Init /\ [][Next]_vars

\* ------------------------------------ processPreSubmitHooks on its own
\* a call of processPreSubmitHooks for a language other than git, with a
\* hook of each kind to choose from
HookRunPool ==
  { ActionHook(Some(<<"fmt">>), None),
    CommandHook(Some(<<"echo", " ", "x">>), Some("submit"), None),
    ScriptHook(Some(<<".acmoj", "/", "s.sh">>), Some("pipe"), None),
    OtherHook,
    NullHook }

InitHookRun ==
  /\ pc = "load"
  /\ subst = NoSubstCall
  /\ naming = NoNaming
  /\ api = NoApiRequest
  /\ monitor = NoMonitor
  /\ calls = NoCalls
  /\ cfg \in ConfigStates
  /\ hooks \in (IF cfg = "array" THEN SeqsUpTo(HookRunPool, MaxHooks)
                ELSE {<<>>})
  /\ selectedLanguage = "cpp"
  /\ docText = InitialText
  /\ initialFileContent = InitialText
  /\ i = 0
  /\ hookDisplayName = <<>>
  /\ currentFileContentForHooks = InitialText
  /\ currentInputForNextPipe = None
  /\ preSubmitStringAccumulator = <<>>
  /\ anyOutputSubmitUsed = FALSE
  /\ child = None
  /\ hookResult = None
  /\ thrown = None
  /\ codeToSubmitForOJ = InitialText
  /\ submitCodeCalls = <<>>
  /\ monitoredSubmissions = <<>>
  /\ steps = <<>>
  /\ failedAt = None

\* what the function does by itself between two awaits
RunsOn ==
  \/ LoadConfig
  \/ DisplayNameThrows
  \/ ActionInvoke
  \/ ProcessSpawn
  \/ OtherTypeStep
  \/ AssembleResult

NextHookRun ==
  \/ RunsOn
  \/ ActionReturn
  \/ ProcessClose

\* the function runs on whenever it can; every action invoked returns and
\* every process spawned closes
HookRunFairness ==
  /\ WF_vars(RunsOn)
  /\ WF_vars(ActionReturn)
  /\ WF_vars(ProcessClose)

SpecHookRun == InitHookRun /\ [][NextHookRun]_vars /\ HookRunFairness

\* ------------------------------------- substituteVariables on its own
\* templates are built from up to MaxPieces pieces; K1 and K2 are keys of
\* variables (in that order), K3 is not
PiecePool ==
  { <<"a">>, <<"$">>, Placeholder("K1"), Placeholder("K2"), Placeholder("K3") }

ValuePool ==
  { <<>>, <<"b">>, Placeholder("K1"), Placeholder("K2"),
    <<"$", "$">>, <<"$", "&">>, <<"$", "`">>, <<"$", "'">> }

RECURSIVE Flatten(_)
Flatten(pieces) ==
  IF pieces = <<>> THEN <<>> ELSE pieces[1] \o Flatten(Tail(pieces))

Templates == {Flatten(ps) : ps \in SeqsUpTo(PiecePool, MaxPieces)}

\* the pipeline is not run
PipelineIdle ==
  /\ cfg = "noFolder"
  /\ hooks = <<>>
  /\ selectedLanguage = "cpp"
  /\ docText = InitialText
  /\ initialFileContent = InitialText
  /\ i = 0
  /\ hookDisplayName = <<>>
  /\ currentFileContentForHooks = InitialText
  /\ currentInputForNextPipe = None
  /\ preSubmitStringAccumulator = <<>>
  /\ anyOutputSubmitUsed = FALSE
  /\ child = None
  /\ hookResult = None
  /\ thrown = None
  /\ codeToSubmitForOJ = InitialText
  /\ submitCodeCalls = <<>>
  /\ monitoredSubmissions = <<>>
  /\ steps = <<>>
  /\ failedAt = None

InitSubst ==
  /\ calls = NoCalls
  /\ pc = "subst"
  /\ PipelineIdle
  /\ naming = NoNaming
  /\ api = NoApiRequest
  /\ monitor = NoMonitor
  /\ \E t \in Templates, v1 \in ValuePool, v2 \in ValuePool,
        ex \in {{}, {"K1"}, {"K2"}} :
       subst = SubstCall(t, << <<"K1", v1>>, <<"K2", v2>> >>, ex)

CallSubstituteVariables ==
  /\ pc = "subst"
  /\ subst.result = None
  /\ subst' = [subst EXCEPT !.result =
       Some(substituteVariables(subst.template, subst.variables,
                                subst.excludeKeys))]
  /\ UNCHANGED <<pipelineVars, naming, api, monitor>>

NextSubst == CallSubstituteVariables

SpecSubst == InitSubst /\ [][NextSubst]_vars

\* ------------------------------------ the variables of a file on their own
\* file names are built from up to MaxNameLen pieces and are not made of
\* dots only
NamePiecePool == {"sol", "cpp", "."}

FileNames ==
  { n \in SeqsUpTo(NamePiecePool, MaxNameLen) :
      \E k \in DOMAIN n : n[k] # "." }

NoSuffixTemplate == <<"echo", " ">> \o Placeholder("ACMOJ_FILE_NAME_NO_SUFFIX")

InitNaming ==
  /\ calls = NoCalls
  /\ pc = "naming"
  /\ PipelineIdle
  /\ subst = NoSubstCall
  /\ api = NoApiRequest
  /\ monitor = NoMonitor
  /\ \E n \in FileNames :
       naming = Naming(<<"/", "tmp", "/">> \o n, NoSuffixTemplate)

\* the command line of a command step for the document at naming.filePath
BuildCommandLine ==
  /\ pc = "naming"
  /\ naming.commandLine = None
  /\ naming' = [naming EXCEPT !.commandLine =
       Some(Join(commandParts(substituteVariables(naming.template,
                   hookVariablesFor(naming.filePath, InitialText),
                   {"ACMOJ_FILE_CONTENT"})), <<" ">>))]
  /\ UNCHANGED <<pipelineVars, subst, api, monitor>>

NextNaming == BuildCommandLine

SpecNaming == InitNaming /\ [][NextNaming]_vars

\* ------------------------------------------------------ ApiClient.request
\* what an attempt gets: an HTTP status, 0 when there is no response
Responses == {0, 200, 401, 404, 408, 429, 500}

\* the response interceptor: the error the attempt rejects with
Rejection(response) ==
  IF response = 401
  THEN [message |-> "Authentication failed (401)", status |-> 0]
  ELSE [message |-> "request failed", status |-> response]

\* error.status || error.originalError?.response?.status, 0 when undefined
statusOf(error) == error.status

\* if (status) { 401, or 4xx other than 408 and 429 }
noRetry(status) ==
  /\ status # 0
  /\ \/ status = 401
     \/ status >= 400 /\ status < 500 /\ status # 408 /\ status # 429

InitApi ==
  /\ calls = NoCalls
  /\ pc = "api"
  /\ PipelineIdle
  /\ subst = NoSubstCall
  /\ naming = NoNaming
  /\ monitor = NoMonitor
  /\ \E retryCount \in 0..MaxRetryCount : api = ApiRequest(retryCount)

\* one turn of the while loop: the request is sent and its outcome handled
Attempt ==
  /\ pc = "api"
  /\ api.at = "while"
  /\ api.attempt <= api.retryCount
  /\ \E response \in Responses :
       LET sent == [api EXCEPT !.responses = Append(@, response)]
           error == Rejection(response)
       IN IF response = 200
          THEN api' = [sent EXCEPT !.at = "returned"]
          ELSE LET caught == [sent EXCEPT
                     !.lastError = Some(error),
                     !.unauthorizedHandled =
                        IF response = 401 THEN @ + 1 ELSE @]
               IN IF noRetry(statusOf(error))
                  THEN api' = [caught EXCEPT !.at = "break"]
                  ELSE api' = [caught EXCEPT !.attempt = @ + 1]
  /\ UNCHANGED <<pipelineVars, subst, naming, monitor>>

\* the loop is left without a response: lastError is thrown
ThrowLastError ==
  /\ pc = "api"
  /\ \/ api.at = "break"
     \/ api.at = "while" /\ api.attempt > api.retryCount
  /\ api' = [api EXCEPT !.at = "threw"]
  /\ UNCHANGED <<pipelineVars, subst, naming, monitor>>

NextApi == Attempt \/ ThrowLastError

SpecApi == InitApi /\ [][NextApi]_vars

\* ------------------------------------------------ SubmissionMonitorService
\* Math.ceil(timeout / this.monitorInterval)
maxAttempts == (monitor.timeout + monitor.interval - 1) \div monitor.interval

\* splice(indexOf(id), 1) when id is in the list
RemoveFirst(list, id) ==
  IF ~Contains(list, id) THEN list
  ELSE LET k == IndexFrom(list, id, 1)
       IN SubSeq(list, 1, k - 1) \o SubSeq(list, k + 1, Len(list))

RECURSIVE RemoveEach(_, _)
RemoveEach(list, ids) ==
  IF ids = <<>> THEN list
  ELSE RemoveEach(RemoveFirst(list, ids[1]), Tail(ids))

\* a call of checkSubmissions waiting for getSubmissionDetails(id), the
\* element at idx of the array it iterates
Check(array, idx, id, toRemove) ==
  [array |-> array, idx |-> idx, id |-> id, toRemove |-> toRemove]

InitMonitor ==
  /\ calls = NoCalls
  /\ pc = "monitor"
  /\ PipelineIdle
  /\ subst = NoSubstCall
  /\ naming = NoNaming
  /\ api = NoApiRequest
  /\ \E interval \in {2, 3}, timeout \in {2, 5} :
       monitor = Monitor(interval, timeout)

\* addSubmission: push, then start
addSubmission ==
  /\ pc = "monitor"
  /\ \E id \in SubmissionIds \ monitor.added :
       /\ monitoredSubmissions' = Append(monitoredSubmissions, id)
       /\ monitor' = [monitor EXCEPT !.added = @ \cup {id}, !.timer = TRUE]
  /\ UNCHANGED <<hookRunVars, subst, naming, api>>

\* the interval timer calls checkSubmissions, which stops the service on
\* an empty list and otherwise runs up to its first await
TimerFires ==
  /\ pc = "monitor"
  /\ monitor.timer
  /\ monitor.ticks < MaxTicks
  /\ Len(monitor.checks) < MaxInFlight
  /\ IF monitoredSubmissions = <<>>
     THEN /\ monitor' = [monitor EXCEPT !.timer = FALSE, !.array = @ + 1,
                                        !.ticks = @ + 1]
          /\ monitoredSubmissions' = <<>>
     ELSE /\ monitor' = [monitor EXCEPT !.ticks = @ + 1, !.checks =
               Append(@, Check(monitor.array, 1, monitoredSubmissions[1],
                               <<>>))]
          /\ UNCHANGED monitoredSubmissions
  /\ UNCHANGED <<hookRunVars, subst, naming, api>>

\* getSubmissionDetails settles for call c: the rest of the loop body, in
\* which showStatusChangeNotification offers 'View Details' for a terminal
\* status, and either the next fetch or the removals after the loop
FetchSettles(c) ==
  /\ pc = "monitor"
  /\ c \in DOMAIN monitor.checks
  /\ \E outcome \in {"error", "pending", "judged"} :
       LET ck == monitor.checks[c]
           id == ck.id
           attempts == monitor.cache[id]
           terminal == IF outcome = "judged" THEN Append(ck.toRemove, id)
                       ELSE ck.toRemove
           toRemove == IF outcome = "error" THEN ck.toRemove
                       ELSE IF attempts >= maxAttempts
                       THEN Append(terminal, id)
                       ELSE terminal
           iterated == IF ck.array = monitor.array THEN monitoredSubmissions
                       ELSE <<>>
           others == SubSeq(monitor.checks, 1, c - 1)
                     \o SubSeq(monitor.checks, c + 1, Len(monitor.checks))
           settled == [monitor EXCEPT
                         !.cache[id] = IF outcome = "error" THEN @ ELSE @ + 1,
                         !.fetches[id] = @ + 1,
                         !.terminalShown[id] =
                            IF outcome = "judged" THEN @ + 1 ELSE @,
                         !.judged = IF outcome = "judged" THEN @ \cup {id}
                                    ELSE @]
       IN /\ outcome = "pending" => id \notin monitor.judged
          /\ IF ck.idx + 1 <= Len(iterated)
             THEN /\ monitor' = [settled EXCEPT !.checks[c] =
                       Check(ck.array, ck.idx + 1, iterated[ck.idx + 1],
                             toRemove)]
                  /\ UNCHANGED monitoredSubmissions
             ELSE /\ monitor' = [settled EXCEPT !.checks = others]
                  /\ monitoredSubmissions' =
                       RemoveEach(monitoredSubmissions, toRemove)
  /\ UNCHANGED <<hookRunVars, subst, naming, api>>

NextMonitor ==
  \/ addSubmission
  \/ TimerFires
  \/ \E c \in 1..MaxInFlight : FetchSettles(c)

SpecMonitor == InitMonitor /\ [][NextMonitor]_vars

\* ------------------------------------ two calls of processPreSubmitHooks
CallHookPool ==
  { ActionHook(Some(<<"fmt">>), None),
    CommandHook(Some(<<"echo", " ", "x">>), Some("submit"), None),
    ScriptHook(Some(<<".acmoj", "/", "s.sh">>), Some("pipe"), None) }

\* the second call reads the array of the first or, the file having been
\* edited in between, another one of at most one entry
InitCalls ==
  /\ pc = "calls"
  /\ PipelineIdle
  /\ subst = NoSubstCall
  /\ naming = NoNaming
  /\ api = NoApiRequest
  /\ monitor = NoMonitor
  /\ \E first \in SeqsUpTo(CallHookPool, MaxCallHooks),
        second \in SeqsUpTo(CallHookPool, 1) :
       calls \in {Calls(first, first), Calls(first, second)}

\* variant: the locals are fields of the service, one set for all calls
contextOf_Shared(r) == 1

\* the locals are declared in the function: each call has its own
contextOf(r) == r

\* how a step that ended changes the locals: an action that returned, a
\* process that exited 0; a step that failed leaves them
ApplyOutcome(ctx, hook, outcome) ==
  IF ~outcome.ok THEN ctx
  ELSE IF hook.type = Some("action")
    THEN [ctx EXCEPT
            !.currentFileContentForHooks =
               IF outcome.observed # None THEN Get(outcome.observed) ELSE @,
            !.currentInputForNextPipe = None]
  ELSE [ctx EXCEPT
          !.currentInputForNextPipe =
             IF outputMode(hook) = "pipe" THEN Some(outcome.stdout) ELSE None,
          !.preSubmitStringAccumulator =
             IF outputMode(hook) = "submit" THEN Append(@, outcome.stdout)
             ELSE @,
          !.anyOutputSubmitUsed = @ \/ outputMode(hook) = "submit"]

\* nothing but the two calls is under way
OnlyCalls ==
  /\ pc = "calls"
  /\ UNCHANGED <<pc, cfg, hooks, selectedLanguage, docText,
                 initialFileContent, loopVars, hookResult, thrown,
                 codeToSubmitForOJ, submitCodeCalls, monitoredSubmissions,
                 subst, naming, api, monitor>>

\* the call is made: the document's text is its initialFileContent and
\* its locals are initialised; an empty array returns at once
CallStarts(r) ==
  LET c == calls.call[r]
  IN /\ OnlyCalls
     /\ c.pc = "idle"
     /\ IF c.hooks = <<>>
        THEN calls' = [calls EXCEPT
               !.call[r].initialFileContent = calls.document,
               !.call[r].pc = "returned",
               !.call[r].result =
                  Some(PreSubmitResult(calls.document, FALSE, None))]
        ELSE calls' = [calls EXCEPT
               !.call[r].initialFileContent = calls.document,
               !.call[r].pc = "loop",
               !.context[contextOf(r)] = Context(calls.document)]

\* the next step of call r up to its await
StepStarts(r) ==
  LET c == calls.call[r]
      ctx == calls.context[contextOf(r)]
  IN /\ OnlyCalls
     /\ c.pc = "loop"
     /\ c.i < Len(c.hooks)
     /\ IF c.hooks[c.i + 1].type = Some("action")
        THEN calls' = [calls EXCEPT !.call[r].pc = "action_running"]
        ELSE calls' = [calls EXCEPT
               !.call[r].pc = "process_running",
               !.call[r].spawnedWith = Some(ctx.currentInputForNextPipe)]

\* what the step of call r awaits settles
StepEnds(r) ==
  LET c == calls.call[r]
      ctx == calls.context[contextOf(r)]
      hook == c.hooks[c.i + 1]
  IN /\ OnlyCalls
     /\ c.pc \in {"action_running", "process_running"}
     /\ \E ok \in BOOLEAN, stillActive \in BOOLEAN,
           newText \in {calls.document, EditedText}, stdout \in StdoutPool :
          LET isAction == c.pc = "action_running"
              outcome ==
                [idx |-> c.i, ok |-> ok,
                 observed |-> IF isAction /\ ok /\ stillActive
                              THEN Some(newText) ELSE None,
                 stdout |-> IF isAction \/ ~ok THEN <<>> ELSE stdout,
                 stdin |-> c.spawnedWith]
          IN /\ isAction => stdout = <<>>
             /\ (~isAction \/ ~ok) => (stillActive /\ newText = calls.document)
             /\ ~ok => stdout = <<>>
             /\ calls' = [calls EXCEPT
                  !.document = IF isAction /\ ok THEN newText ELSE @,
                  !.context[contextOf(r)] = ApplyOutcome(ctx, hook, outcome),
                  !.call[r].log = Append(@, outcome),
                  !.call[r].spawnedWith = None,
                  !.call[r].i = IF ok THEN @ + 1 ELSE @,
                  !.call[r].pc = IF ok THEN "loop" ELSE "threw"]

\* the loop of call r is over: the result is assembled from its locals
CallReturns(r) ==
  LET c == calls.call[r]
      ctx == calls.context[contextOf(r)]
  IN /\ OnlyCalls
     /\ c.pc = "loop"
     /\ c.i >= Len(c.hooks)
     /\ calls' = [calls EXCEPT
          !.call[r].pc = "returned",
          !.call[r].result = Some(PreSubmitResult(
             IF ctx.anyOutputSubmitUsed
             THEN Join(ctx.preSubmitStringAccumulator, <<>>)
             ELSE ctx.currentFileContentForHooks,
             ctx.anyOutputSubmitUsed, None))]

NextCalls ==
  \/ \E r \in CallIds : CallStarts(r)
  \/ \E r \in CallIds : StepStarts(r)
  \/ \E r \in CallIds : StepEnds(r)
  \/ \E r \in CallIds : CallReturns(r)

SpecCalls == InitCalls /\ [][NextCalls]_vars

\* ================================================================ claims
\* processPreSubmitHooks has been entered and its config loading is over
Loaded == pc \notin {"cmd", "load", "choose", "subst", "naming", "api",
                     "monitor", "calls"} /\ selectedLanguage # "git"

BadConfig == cfg \in {"EACCES", "badJson", "notArray"}

TheResult == Get(hookResult)

\* one of the three HookStep shapes
IsHookStepShaped(hook) ==
  /\ ~hook.isNull
  /\ \/ hook.type = Some("action") /\ hook.name # None
     \/ hook.type = Some("command") /\ hook.content # None
     \/ hook.type = Some("script") /\ hook.path # None

HasSubmitMode(hook) == IsProcessHook(hook) /\ hook.output = Some("submit")
HasPipeMode(hook) == IsProcessHook(hook) /\ hook.output = Some("pipe")

\* stdout of the submit-mode steps of the history, in step order
RECURSIVE SubmitStdout(_)
SubmitStdout(log) ==
  IF log = <<>> THEN <<>>
  ELSE (IF HasSubmitMode(hooks[log[1].idx + 1]) /\ log[1].status = "ok"
        THEN log[1].stdout ELSE <<>>)
       \o SubmitStdout(Tail(log))

\* C1: once step failedAt has failed, no later step has been started, the
\* accumulator holds nothing but the output of earlier submit steps, and
\* the run has thrown and returned no result
C1_AbortOnFailure ==
  failedAt # None =>
    /\ \A k \in DOMAIN steps : steps[k].idx <= Get(failedAt)
    /\ child = None
    /\ LET earlier == SubmitStdout(steps)
           held == Join(preSubmitStringAccumulator, <<>>)
       IN \/ held = earlier
          \/ steps # <<>> /\ held = earlier \o steps[Len(steps)].stdout
    /\ \A k \in DOMAIN steps :
         steps[k].idx = Get(failedAt) => steps[k].status = "failed"
    /\ thrown # None
    /\ hookResult = None
    /\ pc \in {"threw", "aborted"}

C1_Witness ==
  /\ pc = "aborted"
  /\ failedAt = Some(0)
  /\ Len(hooks) >= 2
  /\ HasSubmitMode(hooks[2])
  /\ steps # <<>>
  /\ steps[1].status = "failed"
  /\ steps[1].stdin # None

\* C2: when the hook run returned an error or threw, submitCode is not
\* called and the monitor gets no submission
C2_NoSubmitAfterHookError ==
  (thrown # None \/ (hookResult # None /\ Truthy(TheResult.error))) =>
    /\ submitCodeCalls = <<>>
    /\ monitoredSubmissions = <<>>
    /\ pc \notin {"confirm", "submitting", "done"}

C2_Witness ==
  /\ pc = "aborted"
  /\ hookResult # None
  /\ Truthy(TheResult.error)

\* C3: an unreadable config, invalid JSON or a JSON non-array gives a
\* result with an error, the initial content and outputUsed false, and no
\* action or process is invoked
C3_BadConfigIsError ==
  (BadConfig /\ Loaded) =>
    /\ hookResult # None
    /\ Truthy(TheResult.error)
    /\ TheResult.content = initialFileContent
    /\ TheResult.outputUsed = FALSE
    /\ steps = <<>>
    /\ child = None
    /\ thrown = None

C3_Witness ==
  /\ cfg = "notArray"
  /\ pc = "aborted"
  /\ hookResult # None

\* C4: an array with an element that is not HookStep-shaped gives a result
\* with an error, the initial content and outputUsed false, and no step of
\* the array is executed
C4_MalformedElementIsError ==
  (/\ cfg = "array"
   /\ \E k \in DOMAIN hooks : ~IsHookStepShaped(hooks[k])
   /\ Loaded) =>
    /\ steps = <<>>
    /\ child = None
    /\ thrown = None
    /\ hookResult # None
    /\ Truthy(TheResult.error)
    /\ TheResult.content = initialFileContent
    /\ TheResult.outputUsed = FALSE

\* C5: without a workspace folder, without a config file or with an empty
\* array the result is exactly {initial content, false, undefined} and no
\* step runs
C5_EmptyPipeline ==
  (/\ \/ cfg \in {"noFolder", "ENOENT"}
      \/ cfg = "array" /\ hooks = <<>>
   /\ Loaded) =>
    /\ hookResult = Some(PreSubmitResult(initialFileContent, FALSE, None))
    /\ steps = <<>>
    /\ child = None
    /\ thrown = None

C5_Witness ==
  /\ cfg = "array"
  /\ hooks = <<>>
  /\ pc = "confirm"
  /\ hookResult # None

\* C6: a run that returns and has a submit-mode step returns the stdout of
\* its submit-mode steps concatenated in step order, with outputUsed true
C6_SubmitAccumulation ==
  (/\ hookResult # None
   /\ \E k \in DOMAIN hooks : HasSubmitMode(hooks[k])) =>
    /\ TheResult.outputUsed = TRUE
    /\ TheResult.content = SubmitStdout(steps)
    /\ Len(steps) = Len(hooks)

C6_Witness ==
  /\ hookResult # None
  /\ TheResult.content = <<"A", "B", "\n">>
  /\ Len(hooks) = 3
  /\ HasSubmitMode(hooks[1])
  /\ ~HasSubmitMode(hooks[2])
  /\ HasSubmitMode(hooks[3])

\* C7: a spawned process gets on stdin the stdout of the step right before
\* it when that step is a pipe-mode process that exited 0, and nothing
\* otherwise; stdin is ended in both cases
C7_PipePropagation ==
  /\ \A k \in DOMAIN steps :
       steps[k].stdin # None =>
         steps[k].stdin =
           (IF /\ k > 1
               /\ steps[k - 1].idx = steps[k].idx - 1
               /\ HasPipeMode(hooks[steps[k - 1].idx + 1])
               /\ steps[k - 1].status = "ok"
            THEN Some(steps[k - 1].stdout)
            ELSE Some(<<>>))
  /\ child # None => Get(child).stdinEnded

HasDisplayName(hook) ==
  /\ ~hook.isNull
  /\ \/ Truthy(hook.description)
     \/ hook.type = Some("action") /\ hook.name # None
     \/ hook.type = Some("command") /\ hook.content # None
     \/ hook.type = Some("script") /\ hook.path # None

\* C9: the error thrown for a failed step is "Hook <display name> failed:
\* <underlying message>"
C9_ErrorNamesStep ==
  failedAt # None =>
    LET hook == hooks[Get(failedAt) + 1]
    IN /\ thrown # None
       /\ HasDisplayName(hook)
       /\ \E k \in 1..Len(Get(thrown)) :
            LET cause == Slice(Get(thrown), k, Len(Get(thrown)))
            IN Get(thrown) = <<"Hook ">> \o hookDisplayNameOf(hook, Get(failedAt))
                             \o <<" failed: ">> \o cause

\* one pass over the template: each ${K} with K a key that is not excluded
\* becomes the value of K verbatim, everything else is copied
ValueOf(variables, key) ==
  LET k == CHOOSE k \in DOMAIN variables : variables[k][1] = key
  IN variables[k][2]

Keys(variables) == {variables[k][1] : k \in DOMAIN variables}

RECURSIVE OnePass(_, _, _, _)
OnePass(template, p, variables, excludeKeys) ==
  IF p > Len(template) THEN <<>>
  ELSE IF \E key \in Keys(variables) \ excludeKeys : MatchesAt(template, p, key)
    THEN ValueOf(variables, template[p + 2])
         \o OnePass(template, p + 4, variables, excludeKeys)
  ELSE <<template[p]>> \o OnePass(template, p + 1, variables, excludeKeys)

\* C10: substituteVariables equals the one-pass simultaneous replacement
C10_OnePassSubstitution ==
  subst.result # None =>
    Get(subst.result) =
      OnePass(subst.template, 1, subst.variables, subst.excludeKeys)

\* a step of the history for which a process was spawned
Spawned(entry) == entry.kind = "process" /\ entry.stdin # None

\* C11: the command line of a spawned process is the one any other file
\* content would have given and holds no text of the file; the content is
\* in the process environment as ACMOJ_FILE_CONTENT
C11_CommandLineIgnoresContent ==
  /\ child # None =>
       /\ \A content \in {InitialText, EditedText} \ {currentFileContentForHooks} :
            Get(child).command =
              Join(commandPartsOf(hooks[i + 1], content), <<" ">>)
       /\ ValueOf(Get(child).env, "ACMOJ_FILE_CONTENT") =
            currentFileContentForHooks
       /\ Get(child).command = steps[Len(steps)].command
  /\ \A k \in DOMAIN steps :
       Spawned(steps[k]) =>
         /\ ~Contains(steps[k].command, InitialText[1])
         /\ ~Contains(steps[k].command, EditedText[1])

C11_Witness ==
  /\ child # None
  /\ currentFileContentForHooks = EditedText
  /\ Get(child).command = <<"echo", " ">> \o Placeholder("ACMOJ_FILE_CONTENT")
  /\ ValueOf(Get(child).env, "ACMOJ_FILE_CONTENT") = EditedText

\* the document text last read back after an action step, the initial
\* content when none was
RECURSIVE LastObserved(_)
LastObserved(log) ==
  IF log = <<>> THEN initialFileContent
  ELSE IF log[Len(log)].observed # None THEN Get(log[Len(log)].observed)
  ELSE LastObserved(SubSeq(log, 1, Len(log) - 1))

SubmitStepCompleted ==
  \E k \in DOMAIN steps :
    HasSubmitMode(hooks[steps[k].idx + 1]) /\ steps[k].status = "ok"

\* C12: a returned result of a run in which no submit-mode step completed
\* has outputUsed false and the last observed document text as content,
\* which is no process output
C12_ContentIsLastObservedText ==
  (hookResult # None /\ ~SubmitStepCompleted) =>
    /\ TheResult.outputUsed = FALSE
    /\ TheResult.content = LastObserved(steps)
    /\ TheResult.content \in {InitialText, EditedText}
    /\ \A out \in StdoutPool : out # <<>> => ~Contains(TheResult.content, out[1])

\* an action edited the text while the document was active, a later one
\* edited it again while it was not, and a process printed something
C12_Witness ==
  /\ hookResult # None
  /\ ~SubmitStepCompleted
  /\ Len(steps) = 3
  /\ steps[1].observed = Some(EditedText)
  /\ steps[2].kind = "action" /\ steps[2].observed = None
  /\ steps[3].kind = "process" /\ steps[3].stdout # <<>>
  /\ TheResult.content = EditedText

\* C13: a process step without output field that exits 0 does what output
\* ignore does: the pending input is left undefined, the accumulator and
\* outputUsed are untouched, nothing is shown, and the step is logged with
\* the mode of its twin with output "ignore"
C13_MissingOutputIsIgnore ==
  [][(/\ pc = "process_running"
      /\ hooks[i + 1].output = None
      /\ pc' = "loop") =>
       /\ currentInputForNextPipe' = None
       /\ preSubmitStringAccumulator' = preSubmitStringAccumulator
       /\ anyOutputSubmitUsed' = anyOutputSubmitUsed
       /\ currentFileContentForHooks' = currentFileContentForHooks
       /\ steps'[Len(steps')].notified = <<>>
       /\ steps'[Len(steps')].mode =
            outputMode([hooks[i + 1] EXCEPT !.output = Some("ignore")])]_vars

\* a step without output field printed on both streams after a pipe step,
\* and the run returned the document text
C13_Witness ==
  /\ hookResult # None
  /\ Len(steps) = 2
  /\ HasPipeMode(hooks[1])
  /\ IsProcessHook(hooks[2]) /\ hooks[2].output = None
  /\ steps[2].status = "ok"
  /\ steps[2].stdout # <<>> /\ steps[2].stderr # <<>>
  /\ TheResult = PreSubmitResult(initialFileContent, FALSE, None)

\* a step of the history whose process has closed
HasClosed(entry) == entry.event \in {"0", "1", "127", "null"}

\* part occurs in msg
Carries(msg, part) ==
  \E a \in 0..(Len(msg) - Len(part)) : SubSeq(msg, a + 1, a + Len(part)) = part

ExitedWithCodeForm(msg) == Carries(msg, <<"\" exited with code ">>)

\* C15: the error of a failed process step has the "exited with code" form
\* only when the command of the step ran; a step whose shell could not be
\* spawned or whose command or script was not found fails with another
\* message
C15_SpawnErrorDistinct ==
  \A k \in DOMAIN steps :
    LET e == steps[k]
    IN (e.kind = "process" /\ e.error # None) =>
         /\ ExitedWithCodeForm(Get(e.error)) => e.ran
         /\ ~e.ran => ~ExitedWithCodeForm(Get(thrown))

\* C16: a step in which a notifier call threw is not failed by it and the
\* run does not throw the notifier's error
C16_NotifierFailureHarmless ==
  /\ \A k \in DOMAIN steps :
       steps[k].cause = "notifier" => steps[k].status # "failed"
  /\ failedAt # None => ~Carries(Get(thrown), NotifierErrorMsg)

\* C20: between two entries the pending input is undefined unless the
\* entry just processed is a pipe-mode process step that exited 0, whose
\* stdout it then is
C20_PendingStdinReset ==
  (pc = "loop" /\ steps # <<>> /\ currentInputForNextPipe # None) =>
    LET e == steps[Len(steps)]
    IN /\ HasPipeMode(hooks[e.idx + 1])
       /\ e.status = "ok"
       /\ currentInputForNextPipe = Some(e.stdout)

\* the part of a file name before its last dot, the name when it has none
Stem(fileName) ==
  LET dots == {k \in DOMAIN fileName : fileName[k] = "."}
  IN IF dots = {} THEN fileName
     ELSE SubSeq(fileName, 1, (CHOOSE k \in dots : \A d \in dots : d <= k) - 1)

\* C17: echo ${ACMOJ_FILE_NAME_NO_SUFFIX} becomes echo followed by the
\* base name without its last dot-suffix; for /tmp/sol.cpp it is echo sol
C17_NameNoSuffix ==
  naming.commandLine # None =>
    LET fileName == SubSeq(naming.filePath, 4, Len(naming.filePath))
    IN /\ Get(naming.commandLine) =
            (IF Stem(fileName) = <<>> THEN <<"echo">>
             ELSE <<"echo", " ">> \o Stem(fileName))
       /\ ~Contains(fileName, ".") =>
            Get(naming.commandLine) = <<"echo", " ">> \o fileName
       /\ fileName = <<"sol", ".", "cpp">> =>
            Get(naming.commandLine) = <<"echo", " ", "sol">>

C17_Witness ==
  /\ naming.filePath = <<"/", "tmp", "/", "sol", ".", "cpp">>
  /\ naming.commandLine = Some(<<"echo", " ", "sol">>)

\* a response after which the claim allows no further attempt
EndsRequest(response) ==
  response \in {401, 404}

\* C18: the call returns on its first successful attempt, makes at most
\* 1 + retryCount attempts, throws the error of its last attempt, and makes
\* no attempt after a 401 or another 4xx other than 408 and 429
C18_BoundedRetry ==
  /\ Len(api.responses) <= 1 + api.retryCount
  /\ \A k \in DOMAIN api.responses :
       k < Len(api.responses) =>
         /\ api.responses[k] # 200
         /\ ~EndsRequest(api.responses[k])
  /\ api.at = "returned" => api.responses[Len(api.responses)] = 200
  /\ api.at = "threw" =>
       /\ api.responses # <<>>
       /\ api.lastError =
            Some(Rejection(api.responses[Len(api.responses)]))

\* C19: a monitored submission has had at most maxAttempts + 1 status
\* fetches settled, with or without error, once no call of checkSubmissions
\* is under way: by then it has been removed
C19_MonitoringBounded ==
  monitor.checks = <<>> =>
    \A k \in DOMAIN monitoredSubmissions :
      monitor.fetches[monitoredSubmissions[k]] <= maxAttempts + 1

\* C21: the tracked file content changes only when an action returns with
\* the document still the active editor's, and then becomes the document's
\* text; an action after which it is not, and every process step, leave it
\* as it is; a process is spawned with the tracked content of that moment
C21_ContentChangesOnlyAtAction ==
  [][/\ currentFileContentForHooks' # currentFileContentForHooks =>
          pc = "action_running"
     /\ pc = "action_running" =>
          LET observed == steps'[Len(steps')].observed
          IN IF observed # None
             THEN /\ currentFileContentForHooks' = Get(observed)
                  /\ docText' = Get(observed)
             ELSE currentFileContentForHooks' = currentFileContentForHooks
     /\ pc = "process_running" =>
          currentFileContentForHooks' = currentFileContentForHooks
     /\ pc' = "process_running" =>
          ValueOf(Get(child').env, "ACMOJ_FILE_CONTENT") =
            currentFileContentForHooks]_vars

\* an action changed the document while another editor was active, a
\* pipe-mode process printed, and a second action was observed
C21_Witness ==
  /\ pc = "loop"
  /\ Len(steps) = 3
  /\ steps[1].kind = "action" /\ steps[1].status = "ok"
  /\ steps[1].observed = None
  /\ steps[2].kind = "process" /\ steps[2].mode = "pipe"
  /\ steps[2].stdout # <<>>
  /\ steps[3].observed = Some(EditedText)
  /\ currentFileContentForHooks = EditedText

\* C22: the steps started are those of indices 0, 1, 2, ... in this order,
\* each once; the loop index is that of the step under way or of the next
\* one; a failed step is the last one started
C22_StepsInListOrder ==
  /\ \A k \in DOMAIN steps : steps[k].idx = k - 1
  /\ Len(steps) <= Len(hooks)
  /\ pc \in {"action_running", "process_running"} =>
       /\ steps # <<>>
       /\ i = steps[Len(steps)].idx
       /\ steps[Len(steps)].status = "running"
  /\ pc = "loop" => i = Len(steps)
  /\ \A k \in DOMAIN steps :
       /\ steps[k].status = "running" => k = Len(steps)
       /\ steps[k].status = "failed" =>
            /\ k = Len(steps)
            /\ failedAt = Some(k - 1)
            /\ pc \in {"threw", "aborted"}

\* two steps completed and the third failed
C22_Witness ==
  /\ pc = "aborted"
  /\ Len(steps) = 3
  /\ steps[1].status = "ok" /\ steps[2].status = "ok"
  /\ steps[3].status = "failed"
  /\ steps[3].kind = "process" /\ steps[3].event = "1"

\* C23: a process exists exactly while its step awaits it; the step under
\* way is the last one started and the only one unfinished; every step
\* before it has completed, a process step among them by the close of its
\* process with code 0 and with the whole of the two streams
C23_OneStepAtATime ==
  /\ (child # None) <=> (pc = "process_running")
  /\ pc = "process_running" =>
       /\ Spawned(steps[Len(steps)])
       /\ steps[Len(steps)].status = "running"
       /\ steps[Len(steps)].event = ""
       /\ Get(child).command = steps[Len(steps)].command
  /\ Cardinality({k \in DOMAIN steps : steps[k].status = "running"}) <= 1
  /\ \A k \in DOMAIN steps :
       /\ k < Len(steps) =>
            /\ steps[k].status = "ok"
            /\ Spawned(steps[k]) =>
                 /\ steps[k].event = "0"
                 /\ steps[k].value = Some([stdout |-> steps[k].stdout,
                                           stderr |-> steps[k].stderr])
       /\ (Spawned(steps[k]) /\ steps[k].status # "running") =>
            (HasClosed(steps[k]) \/ steps[k].event = "error")

\* a third step's process is running after an action and a process that
\* printed on both streams
C23_Witness ==
  /\ pc = "process_running"
  /\ Len(steps) = 3
  /\ steps[1].kind = "action"
  /\ Spawned(steps[2])
  /\ steps[2].stdout # <<>> /\ steps[2].stderr # <<>>
  /\ child # None

\* C24: the stdin of a spawned process is ended, after one write of the
\* pending input when that is defined, the empty string included, and
\* without any write when it is not
C24_StdinClosedAfterSpawn ==
  child # None =>
    /\ Get(child).stdinEnded
    /\ currentInputForNextPipe # None =>
         Get(child).stdinWrites = <<Get(currentInputForNextPipe)>>
    /\ currentInputForNextPipe = None => Get(child).stdinWrites = <<>>

\* a process spawned after a pipe-mode step that printed nothing
C24_Witness ==
  /\ child # None
  /\ currentInputForNextPipe = Some(<<>>)
  /\ Get(child).stdinWrites = << <<>> >>
  /\ Get(child).stdinEnded
  /\ Len(steps) >= 2
  /\ steps[Len(steps) - 1].mode = "pipe"

\* C25: when every action returns and every process closes, the call
\* returns a result or throws, having started no more steps than the list
\* has entries; and the wait for a process ends by nothing but an event of
\* that process, its close or its failure to spawn
C25_TerminatesUnlessProcessHangs ==
  /\ <>(pc \in {"returned", "threw"} /\ (hookResult # None \/ thrown # None))
  /\ [](Len(steps) <= Len(hooks))
  /\ [][(pc = "process_running" /\ pc' # "process_running") =>
          steps'[Len(steps')].event \in {"error", "0", "1", "127", "null"}]_vars

\* a list of three entries whose three steps ran, the last one a process
C25_Witness ==
  /\ pc = "returned"
  /\ hookResult # None
  /\ Len(hooks) = 3
  /\ Len(steps) = 3
  /\ steps[1].kind = "action"
  /\ Spawned(steps[3])

\* t is s without its leading and trailing white space
IsTrimOf(t, s) ==
  \E a \in 1..(Len(s) + 1), b \in 0..Len(s) :
    /\ t = Slice(s, a, b)
    /\ \A k \in DOMAIN s : (k < a \/ k > b) => IsBlank(s[k])
    /\ t # <<>> => ~IsBlank(t[1]) /\ ~IsBlank(t[Len(t)])

\* the message of the given level shows the trimmed text of the stream
ShowsTrimmed(msg, level, stream) ==
  /\ msg[1] = level
  /\ \E k \in 2..Len(msg[2]) :
       LET t == Slice(msg[2], k, Len(msg[2]))
       IN t # <<>> /\ IsTrimOf(t, stream) /\ msg[2][k - 1] = "\":\n"

HasText(stream) == \E k \in DOMAIN stream : ~IsBlank(stream[k])

\* C26: a process step of output mode ignore or show that exits 0 leaves
\* the accumulator, outputUsed and the tracked content as they are and the
\* pending input undefined; with ignore nothing is shown, with show one
\* message for each stream that has text, holding its trimmed text
C26_IgnoreAndShowLeaveContext ==
  [][(/\ pc = "process_running"
      /\ outputMode(hooks[i + 1]) \in {"ignore", "show"}
      /\ steps'[Len(steps')].event = "0") =>
       LET e == steps'[Len(steps')]
           infos == SelectSeq(e.notified, LAMBDA m : m[1] = "info")
           warnings == SelectSeq(e.notified, LAMBDA m : m[1] = "warning")
       IN /\ preSubmitStringAccumulator' = preSubmitStringAccumulator
          /\ anyOutputSubmitUsed' = anyOutputSubmitUsed
          /\ currentFileContentForHooks' = currentFileContentForHooks
          /\ currentInputForNextPipe' = None
          /\ (e.status = "ok" /\ e.mode = "ignore") => e.notified = <<>>
          /\ (e.status = "ok" /\ e.mode = "show") =>
               /\ e.notified = infos \o warnings
               /\ Len(infos) = (IF HasText(e.stdout) THEN 1 ELSE 0)
               /\ Len(warnings) = (IF HasText(e.stderr) THEN 1 ELSE 0)
               /\ \A k \in DOMAIN infos :
                    ShowsTrimmed(infos[k], "info", e.stdout)
               /\ \A k \in DOMAIN warnings :
                    ShowsTrimmed(warnings[k], "warning", e.stderr)]_vars

\* a show-mode step printed text and a line break on both streams after a
\* submit-mode step, and the run returned the output of that step
C26_Witness ==
  /\ hookResult # None
  /\ Len(steps) = 2
  /\ HasSubmitMode(hooks[1])
  /\ steps[2].mode = "show" /\ steps[2].status = "ok"
  /\ steps[2].stdout = <<"B", "\n">>
  /\ Len(steps[2].notified) = 2
  /\ TheResult.outputUsed
  /\ TheResult.content = steps[1].stdout

\* the locals a call must hold after the outcomes of its own steps
RECURSIVE Replay(_, _, _)
Replay(ctx, hookList, log) ==
  IF log = <<>> THEN ctx
  ELSE Replay(ApplyOutcome(ctx, hookList[log[1].idx + 1], log[1]),
              hookList, Tail(log))

\* C27: the locals of a call are those of a fresh context changed by the
\* outcomes of its own steps and by nothing else; the pending input each of
\* its processes was given and the result it returns follow from its own
\* initial content, entries and outcomes, however the two calls interleave
C27_CallsAreIsolated ==
  \A r \in CallIds :
    LET c == calls.call[r]
        fresh == Context(c.initialFileContent)
        own == Replay(fresh, c.hooks, c.log)
    IN /\ c.pc \in {"loop", "action_running", "process_running"} =>
            calls.context[contextOf(r)] = own
       /\ (c.pc = "loop" /\ c.log = <<>>) =>
            calls.context[contextOf(r)] = fresh
       /\ c.spawnedWith # None =>
            Get(c.spawnedWith) = own.currentInputForNextPipe
       /\ \A k \in DOMAIN c.log :
            c.log[k].stdin # None =>
              Get(c.log[k].stdin) =
                Replay(fresh, c.hooks,
                       SubSeq(c.log, 1, k - 1)).currentInputForNextPipe
       /\ c.result # None =>
            Get(c.result) =
              PreSubmitResult(
                IF own.anyOutputSubmitUsed
                THEN Join(own.preSubmitStringAccumulator, <<>>)
                ELSE own.currentFileContentForHooks,
                own.anyOutputSubmitUsed, None)

\* both calls wait for their second process, each after a submit-mode
\* step of its own with another output
C27_Witness ==
  /\ calls.call[1].pc = "process_running"
  /\ calls.call[2].pc = "process_running"
  /\ calls.context[1].preSubmitStringAccumulator = << <<"A">> >>
  /\ calls.context[2].preSubmitStringAccumulator = << <<"B", "\n">> >>
  /\ calls.call[1].i = 1
  /\ calls.call[2].i = 1

\* a step of the history that is a submit-mode process closed with code 0
ExitZeroSubmit(entry) ==
  /\ HasSubmitMode(hooks[entry.idx + 1])
  /\ entry.event = "0"

RECURSIVE ExitZeroSubmitStdout(_)
ExitZeroSubmitStdout(log) ==
  IF log = <<>> THEN <<>>
  ELSE (IF ExitZeroSubmit(log[1]) THEN log[1].stdout ELSE <<>>)
       \o ExitZeroSubmitStdout(Tail(log))

\* C28: a returned result has outputUsed true exactly when a submit-mode
\* process step of the run closed with code 0; its content is then the
\* stdout of those steps in order, the empty string when they printed
\* nothing, and no text of the document
C28_OutputUsedIffSubmitExitZero ==
  hookResult # None =>
    LET used == \E k \in DOMAIN steps : ExitZeroSubmit(steps[k])
    IN /\ TheResult.outputUsed <=> used
       /\ used =>
            /\ TheResult.content = ExitZeroSubmitStdout(steps)
            /\ TheResult.content \notin {InitialText, EditedText, docText}
            /\ ~Contains(TheResult.content, InitialText[1])
            /\ ~Contains(TheResult.content, EditedText[1])

\* the only submit-mode step printed nothing after an action had edited
\* the document: the empty string is returned
C28_Witness ==
  /\ hookResult # None
  /\ Len(steps) = 2
  /\ steps[1].observed = Some(EditedText)
  /\ ExitZeroSubmit(steps[2])
  /\ steps[2].stdout = <<>>
  /\ TheResult = PreSubmitResult(<<>>, TRUE, None)

\* C29: for a language other than git, when the hook run returned without
\* error, the code chosen is the content of the result when outputUsed is
\* true, and then holds nothing of the problem-ID comment, and otherwise
\* the text the document has after the comment edit; that code is what
\* submitCode gets; for git no hook is run
C29_SubmittedCode ==
  /\ [][(pc = "returned" /\ pc' = "confirm") =>
          /\ selectedLanguage # "git"
          /\ ~Truthy(TheResult.error)
          /\ thrown = None
          /\ IF TheResult.outputUsed
             THEN /\ codeToSubmitForOJ' = TheResult.content
                  /\ ~Contains(codeToSubmitForOJ', ProblemIdComment[1])
             ELSE /\ codeToSubmitForOJ' = docText'
                  /\ \/ docText' = docText
                     \/ docText' = ProblemIdComment \o docText]_vars
  /\ [](selectedLanguage # "git" =>
          /\ pc \in {"confirm", "submitting", "done", "cancelled"} =>
               codeToSubmitForOJ =
                 (IF TheResult.outputUsed THEN TheResult.content ELSE docText)
          /\ \A k \in DOMAIN submitCodeCalls :
               submitCodeCalls[k] = codeToSubmitForOJ)
  /\ [](selectedLanguage = "git" =>
          /\ steps = <<>> /\ child = None
          /\ hookResult = None /\ thrown = None
          /\ pc \in {"cmd", "choose", "confirm", "submitting", "done",
                     "cancelled", "aborted"})

\* an action edited the document while another editor was active: the
\* result holds the initial text, the edited text with the comment in
\* front was submitted
C29_Witness ==
  /\ pc = "done"
  /\ selectedLanguage # "git"
  /\ TheResult = PreSubmitResult(InitialText, FALSE, None)
  /\ steps # <<>>
  /\ submitCodeCalls = <<ProblemIdComment \o EditedText>>

\* C30: the terminal-status notification of a submission is shown at most
\* once, and once it has been shown and no call of checkSubmissions is
\* under way the submission is no longer monitored
C30_TerminalNotificationOnce ==
  \A id \in SubmissionIds :
    /\ monitor.terminalShown[id] <= 1
    /\ (monitor.terminalShown[id] >= 1 /\ monitor.checks = <<>>) =>
         ~Contains(monitoredSubmissions, id)

====
